---------------------------- MODULE Spec2Model ----------------------------
(***************************************************************************)
(* Model of the feature-descriptor library of functime                     *)
(* (src/functime/feature_extraction/tsfresh.py).                           *)
(*                                                                         *)
(* Every descriptor is a pure function of one series.  The state machine   *)
(* draws a series x in Init and then applies one descriptor to it; the     *)
(* state records which descriptor was called, with which arguments, and    *)
(* what the call produced (a number, null, NaN, a boolean, a series, a     *)
(* mapping, or a raised exception).                                        *)
(*                                                                         *)
(* A second specification, SpecReducer, models the reducer wrapper         *)
(* (src/functime/feature_reduction/time_series_processor.py): an object    *)
(* is constructed with a model name, features are registered, and fit,     *)
(* fit_transform and X_reduced are called on small panels.                 *)
(*                                                                         *)
(* Numbers are exact rationals <<n, d>>; floating-point rounding is not    *)
(* modelled, IEEE division by zero (NaN, +-inf) and polars' null           *)
(* propagation are.                                                        *)
(***************************************************************************)
EXTENDS Integers, Sequences, FiniteSets, TLC

VARIABLES
    x,      \* the input series (a sequence of integers, no nulls)
    fn,     \* the descriptor that was applied, "none" before the call
    arg,    \* the arguments of the call (a record)
    out,    \* what the call produced
    wrapper, \* the features_dim_reduction object: model, registered features,
             \* feature_calculator.X_features, dimension_reducer.state_model
    proc,   \* the process the wrapper runs in: running, or exited with a code
    ret     \* the last call on the wrapper: method, arguments, returned value

descriptor_vars == <<x, fn, arg, out>>
reducer_vars == <<wrapper, proc, ret>>
vars == <<x, fn, arg, out, wrapper, proc, ret>>

---------------------------------------------------------------------------
(* Bounds of the model *)

MaxLen == 4
MaxVal == 2
MaxLag == 3

Vals == -1..MaxVal

Series == UNION {[1..n -> Vals] : n \in 0..MaxLen}

---------------------------------------------------------------------------
(* Values a call can produce *)

Abs(a) == IF a < 0 THEN -a ELSE a

RECURSIVE GCD(_, _)
GCD(a, b) == IF b = 0 THEN a ELSE GCD(b, a % b)

\* A finite float, kept as a normalised fraction with a positive denominator.
Num(n, d) ==
    LET s == IF d < 0 THEN -1 ELSE 1
        g == GCD(Abs(n), Abs(d))
    IN  [kind |-> "num", n |-> (s * n) \div g, d |-> (s * d) \div g]

Whole(n)   == [kind |-> "num", n |-> n, d |-> 1]
NaN      == [kind |-> "nan"]
Inf(s)   == [kind |-> "inf", sign |-> s]
Null     == [kind |-> "null"]
Bool(b)  == [kind |-> "bool", b |-> b]
Raise(e) == [kind |-> "raise", exc |-> e]
SeriesOf(s) == [kind |-> "series", vals |-> s]
NoCall   == [kind |-> "nocall"]

IsNum(a) == a.kind = "num"
Sign(n)  == IF n > 0 THEN 1 ELSE IF n < 0 THEN -1 ELSE 0

NumEq(a, b) == IsNum(a) /\ IsNum(b) /\ a.n * b.d = b.n * a.d
NumLt(a, b) == a.n * b.d < b.n * a.d
NumLe(a, b) == a.n * b.d <= b.n * a.d

\* Float arithmetic of polars expressions: null propagates first, then NaN.
FNeg(a) ==
    CASE a.kind = "num" -> Num(-a.n, a.d)
      [] a.kind = "inf" -> Inf(-a.sign)
      [] OTHER -> a

FAdd(a, b) ==
    CASE a.kind = "null" \/ b.kind = "null" -> Null
      [] a.kind = "nan" \/ b.kind = "nan" -> NaN
      [] a.kind = "inf" /\ b.kind = "inf" ->
            IF a.sign = b.sign THEN a ELSE NaN
      [] a.kind = "inf" -> a
      [] b.kind = "inf" -> b
      [] OTHER ->
            LET g == GCD(a.d, b.d)
            IN  Num(a.n * (b.d \div g) + b.n * (a.d \div g), a.d * (b.d \div g))

FSub(a, b) == FAdd(a, FNeg(b))

FMul(a, b) ==
    CASE a.kind = "null" \/ b.kind = "null" -> Null
      [] a.kind = "nan" \/ b.kind = "nan" -> NaN
      [] a.kind = "inf" /\ b.kind = "inf" -> Inf(a.sign * b.sign)
      [] a.kind = "inf" -> IF b.n = 0 THEN NaN ELSE Inf(a.sign * Sign(b.n))
      [] b.kind = "inf" -> IF a.n = 0 THEN NaN ELSE Inf(b.sign * Sign(a.n))
      [] OTHER -> Num(a.n * b.n, a.d * b.d)

\* IEEE division: x/0 is NaN for x = 0 and an infinity otherwise; it never raises.
FDiv(a, b) ==
    CASE a.kind = "null" \/ b.kind = "null" -> Null
      [] a.kind = "nan" \/ b.kind = "nan" -> NaN
      [] a.kind = "inf" /\ b.kind = "inf" -> NaN
      [] a.kind = "inf" -> IF b.n < 0 THEN Inf(-a.sign) ELSE a
      [] b.kind = "inf" -> Whole(0)
      [] b.n = 0 -> IF a.n = 0 THEN NaN ELSE Inf(Sign(a.n))
      [] OTHER -> Num(a.n * b.d, a.d * b.n)

---------------------------------------------------------------------------
(* Series primitives *)

RECURSIVE SumSeq(_)
SumSeq(s) == IF s = <<>> THEN 0 ELSE Head(s) + SumSeq(Tail(s))

RECURSIVE SumSet(_)
SumSet(S) ==
    IF S = {} THEN 0
    ELSE LET e == CHOOSE e \in S : TRUE IN e + SumSet(S \ {e})

\* sum() over no values: 0 on the builds that return the additive identity,
\* null on the builds that return None for an empty aggregation.
EmptySums == {"zero", "null"}
EmptySum(build) == IF build = "zero" THEN Whole(0) ELSE Null

Count(s, v) == Cardinality({i \in 1..Len(s) : s[i] = v})

\* Series.mean(): null for an empty series.
Mean(s) == IF Len(s) = 0 THEN Null ELSE Num(SumSeq(s), Len(s))

---------------------------------------------------------------------------
(* value_counts: a two-column frame, one row <<value, counts>> per distinct   *)
(* value; a frame is its column names and its rows.                           *)

value_counts(s) ==
    [columns |-> <<"x", "counts">>,
     rows    |-> {<<s[i], Count(s, s[i])>> : i \in 1..Len(s)}]

\* .filter(pl.col("counts") > 1)
filter_counts_gt_1(df) ==
    [columns |-> df.columns, rows |-> {r \in df.rows : r[2] > 1}]

RECURSIVE SumCol(_, _)
SumCol(rows, k) ==
    IF rows = {} THEN 0
    ELSE LET r == CHOOSE r \in rows : TRUE IN r[k] + SumCol(rows \ {r}, k)

\* DataFrame.sum(): a frame of one row holding the sum of every column.
frame_sum(df) ==
    [columns |-> df.columns,
     rows    |-> {[k \in 1..Len(df.columns) |-> SumCol(df.rows, k)]}]

\* DataFrame.item() without row/column: the frame as a scalar, which requires
\* the shape (1, 1) and raises ValueError for any other shape.
frame_item(df) ==
    IF Cardinality(df.rows) = 1 /\ Len(df.columns) = 1
    THEN Whole((CHOOSE r \in df.rows : TRUE)[1])
    ELSE Raise("ValueError")

\* counts.get_column(counts.columns[0]).dot(counts.get_column(counts.columns[0]))
column_dot_self(df, k, build) ==
    IF df.rows = {} THEN EmptySum(build)
    ELSE Whole(SumCol({<<r[k] * r[k], r[k]>> : r \in df.rows}, 1))

---------------------------------------------------------------------------
(* tsfresh.py 583-605 *)
sum_reocurring_points(s, build) ==
    LET counts == filter_counts_gt_1(value_counts(s))
    IN  column_dot_self(counts, 1, build)

(* tsfresh.py 608-629 *)
sum_reocurring_values(s) ==
    LET X == frame_sum(filter_counts_gt_1(value_counts(s)))
    IN  frame_item(X)

---------------------------------------------------------------------------
(* Order statistics *)

RECURSIVE Insert(_, _)
Insert(v, s) ==
    IF s = <<>> THEN <<v>>
    ELSE IF v <= Head(s) THEN <<v>> \o s
    ELSE <<Head(s)>> \o Insert(v, Tail(s))

RECURSIVE Sorted(_)
Sorted(s) == IF s = <<>> THEN <<>> ELSE Insert(Head(s), Sorted(Tail(s)))

\* Series.median() of a non-empty series without nulls.
Median(s) ==
    LET n == Len(s)
        o == Sorted(s)
    IN  IF n % 2 = 1 THEN Whole(o[(n + 1) \div 2])
        ELSE Num(o[n \div 2] + o[n \div 2 + 1], 2)

SeqMax(s) == CHOOSE v \in {s[i] : i \in 1..Len(s)} : \A i \in 1..Len(s) : s[i] <= v
SeqMin(s) == CHOOSE v \in {s[i] : i \in 1..Len(s)} : \A i \in 1..Len(s) : v <= s[i]

FAbs(a) == IF a.kind = "num" THEN Num(Abs(a.n), a.d) ELSE a

RECURSIVE FSum(_)
FSum(s) == IF s = <<>> THEN Whole(0) ELSE FAdd(Head(s), FSum(Tail(s)))

---------------------------------------------------------------------------
(* tsfresh.py 655-677.  r is the value the caller passes: a plain scalar      *)
(* (shape "scalar") or a mapping with the key "r" (shape "mapping").          *)

\* r["r"]: subscripting a float raises TypeError.
subscript_r(r) ==
    IF r.shape = "mapping" THEN r.val ELSE Raise("TypeError")

symmetry_looking(s, r) ==
    IF Len(s) = 0
    THEN Raise("TypeError")            \* None - None at line 675
    ELSE
        LET mean_median_difference == FAbs(FSub(Mean(s), Median(s)))
            max_min_difference     == Whole(SeqMax(s) - SeqMin(s))
            rr                     == subscript_r(r)
        IN  IF rr.kind = "raise" THEN rr
            ELSE Bool(NumLt(mean_median_difference,
                            FMul(rr, max_min_difference)))

---------------------------------------------------------------------------
(* tsfresh.py 56-75 *)

Index(n) == [i \in 1..n |-> i]

\* Sum of the products of the deviations from the means.
CoDev(a, b) ==
    FSum([i \in 1..Len(a) |->
            FMul(FSub(Whole(a[i]), Mean(a)), FSub(Whole(b[i]), Mean(b)))])

\* pl.cov(a, b): sample covariance; null when there are fewer than two values.
cov(a, b) ==
    IF Len(a) < 2 THEN Null ELSE FDiv(CoDev(a, b), Whole(Len(a) - 1))

\* x.var(ddof): null when there are no more than ddof values.
var(s, ddof) ==
    IF Len(s) <= ddof THEN Null ELSE FDiv(CoDev(s, s), Whole(Len(s) - ddof))

linear_trend(s, build) ==
    LET n       == Len(s)
        x_range == Index(n)
        beta    == FDiv(cov(s, x_range), var(s, 1))
        alpha   == FSub(Mean(s), FMul(beta, Mean(x_range)))
        resid   == [i \in 1..n |->
                      FAdd(FSub(Whole(s[i]), FMul(beta, Whole(x_range[i]))), alpha)]
        \* sum() skips nulls: with every residual null it sums no values
        rss     == IF n = 0 \/ beta.kind = "null" THEN EmptySum(build)
                   ELSE FSum([i \in 1..n |-> FMul(resid[i], resid[i])])
    IN  [kind |-> "dict", slope |-> beta, intercept |-> alpha, rss |-> rss]

---------------------------------------------------------------------------
(* tsfresh.py 238-272 *)

\* lines 266-272: the estimate for a positive lag
autocorr_estimate(s, lag, build) ==
    LET n  == Len(s)
        m  == IF n > lag THEN n - lag ELSE 0
        \* x.shift(periods=-lag).drop_nulls() and x.shift(periods=lag).drop_nulls()
        lead == [i \in 1..m |-> s[i + lag]]
        back == [i \in 1..m |-> s[i]]
        dot  == IF m = 0 THEN EmptySum(build)
                ELSE FSum([i \in 1..m |->
                        FMul(FSub(Whole(lead[i]), Mean(s)),
                             FSub(Whole(back[i]), Mean(s)))])
    IN  FDiv(dot, FMul(Whole(n - lag), var(s, 0)))

\* autocorr with the guards of lines 260-264 merged into one: lag 0 is
\* treated like a negative lag.
autocorr_lag_zero_rejected(s, lag, build) ==
    IF lag <= 0 THEN Null ELSE autocorr_estimate(s, lag, build)

autocorr(s, lag, build) ==
    IF lag < 0 THEN Null
    ELSE IF lag = 0 THEN Whole(1)
    ELSE autocorr_estimate(s, lag, build)

---------------------------------------------------------------------------
(* tsfresh.py 632-652: plain Python arithmetic on the items of the series *)

\* x[i] with a Python index: negative indices count from the end, an index
\* outside the series raises.
py_item(s, i) ==
    LET k == IF i < 0 THEN Len(s) + i + 1 ELSE i + 1
    IN  IF k \in 1..Len(s) THEN Whole(s[k]) ELSE Raise("IndexError")

\* a / b in Python: a zero divisor raises.
py_div(a, b) ==
    IF b.n = 0 THEN Raise("ZeroDivisionError") ELSE Num(a.n * b.d, a.d * b.n)

mean_second_derivative_central(s) ==
    LET a == py_item(s, -1)
        b == py_item(s, -2)
        c == py_item(s, 1)
        d == py_item(s, 0)
    IN  IF \E e \in {a, b, c, d} : e.kind = "raise"
        THEN Raise("IndexError")
        ELSE py_div(FAdd(FSub(FSub(a, b), c), d), Whole(2 * (Len(s) - 2)))

---------------------------------------------------------------------------
(* tsfresh.py 78-112.  A nullable series is a sequence of Whole/Null values;  *)
(* a nullable boolean mask is a sequence over {"T", "F", "N"}.                *)

\* x.diff(): null_behavior defaults to "ignore", the first entry is null.
diff(s) ==
    [i \in 1..Len(s) |-> IF i = 1 THEN Null ELSE Whole(s[i] - s[i - 1])]

abs_series(s) == [i \in 1..Len(s) |-> FAbs(s[i])]

NonNull(s) == SelectSeq(s, LAMBDA v : v.kind # "null")

Ints(s) == [i \in 1..Len(s) |-> s[i].n]

\* x.quantile(q, interpolation="linear") with q = <<qn, qd>>: nulls are skipped;
\* the value at rank (m - 1) * q of the sorted values, interpolated linearly
\* between the two neighbouring ranks; null when there is no value.
quantile(s, q) ==
    LET o    == Sorted(Ints(NonNull(s)))
        m    == Len(o)
        pos  == (m - 1) * q[1]
        idx  == pos \div q[2]
        frac == Num(pos % q[2], q[2])
        top  == IF pos % q[2] = 0 THEN idx ELSE idx + 1
    IN  IF m = 0 THEN Null
        ELSE IF top = idx THEN Whole(o[idx + 1])
        ELSE FAdd(FMul(frac, Whole(o[top + 1] - o[idx + 1])), Whole(o[idx + 1]))

\* x.is_between(lo, hi): both ends closed, null where a side is null.
is_between(s, lo, hi) ==
    [i \in 1..Len(s) |->
        IF s[i].kind = "null" \/ lo.kind = "null" \/ hi.kind = "null" THEN "N"
        ELSE IF NumLe(lo, s[i]) /\ NumLe(s[i], hi) THEN "T" ELSE "F"]

\* mask.shift_and_fill(fill_value=False, periods=1)
shift_and_fill_false(mask) ==
    [i \in 1..Len(mask) |-> IF i = 1 THEN "F" ELSE mask[i - 1]]

\* a.and_(b) on nullable booleans (Kleene logic)
and_(a, b) ==
    [i \in 1..Len(a) |->
        IF a[i] = "F" \/ b[i] = "F" THEN "F"
        ELSE IF a[i] = "N" \/ b[i] = "N" THEN "N"
        ELSE "T"]

\* x.filter(mask): the entries whose mask is true (null masks are dropped)
RECURSIVE filter(_, _)
filter(s, mask) ==
    IF s = <<>> THEN <<>>
    ELSE (IF Head(mask) = "T" THEN <<Head(s)>> ELSE <<>>)
            \o filter(Tail(s), Tail(mask))

change_quantiles(s, ql, qh, is_abs) ==
    LET d0 == diff(s)
        d  == IF is_abs THEN abs_series(d0) ELSE d0
        inside == is_between(d, quantile(d, ql), quantile(d, qh))
    IN  SeriesOf(Ints(filter(d, and_(inside, shift_and_fill_false(inside)))))

---------------------------------------------------------------------------
(* tsfresh.py 447-506 *)

\* (orig != shift).fill_null(0).cumsum(): the number of changes up to i
run_id(mask, i) ==
    Cardinality({j \in 2..i : mask[j] # mask[j - 1]})

RECURSIVE group_counts(_, _)
\* group_by(mask, maintain_order=True).count() over the rows ids: the sizes of
\* the groups in the order of their first row
group_counts(ids, seen) ==
    IF ids = <<>> THEN <<>>
    ELSE IF Head(ids) \in seen THEN group_counts(Tail(ids), seen)
    ELSE <<Cardinality({i \in 1..Len(ids) : ids[i] = Head(ids)})>>
            \o group_counts(Tail(ids), seen \cup {Head(ids)})

\* The run-length helper without the run ids: every true value falls into
\* one group.
get_length_sequences_where_one_group(mask) ==
    LET rows == SelectSeq([i \in 1..Len(mask) |-> <<mask[i], 0>>],
                          LAMBDA r : r[1])
    IN  group_counts([i \in 1..Len(rows) |-> rows[i][2]], {})

get_length_sequences_where(mask) ==
    LET rows == SelectSeq([i \in 1..Len(mask) |-> <<mask[i], run_id(mask, i)>>],
                          LAMBDA r : r[1])          \* .filter(orig == 1)
    IN  group_counts([i \in 1..Len(rows) |-> rows[i][2]], {})

\* series < None and series > None (the mean of an empty series is None):
\* a TypeError on the builds whose comparison kernels take a plain number, an
\* all-null mask (here: no entries) on the builds that broadcast a null literal.
NoneComparisons == {"raise", "null"}
compares_with_none(s, cmp) == Len(s) = 0 /\ cmp = "raise"

\* x.cast(pl.Float64) < x.mean() and x.cast(pl.Float64) > x.mean()
below_mean(s) == [i \in 1..Len(s) |-> s[i] * Len(s) < SumSeq(s)]
above_mean(s) == [i \in 1..Len(s) |-> s[i] * Len(s) > SumSeq(s)]

longest_strike_below_mean(s, cmp) ==
    IF compares_with_none(s, cmp) THEN Raise("TypeError")
    ELSE LET lengths == get_length_sequences_where(below_mean(s))
         IN  Whole(IF Len(lengths) > 0 THEN SeqMax(lengths) ELSE 0)

longest_strike_above_mean(s, cmp) ==
    IF compares_with_none(s, cmp) THEN Raise("TypeError")
    ELSE LET lengths == get_length_sequences_where(above_mean(s))
         IN  Whole(IF Len(lengths) > 0 THEN SeqMax(lengths) ELSE 0)

---------------------------------------------------------------------------
(* tsfresh.py 509-529 *)

RECURSIVE Reverse(_)
Reverse(s) == IF s = <<>> THEN <<>> ELSE Reverse(Tail(s)) \o <<Head(s)>>

\* x.abs().sort(descending=True)
abs_sorted_descending(s) == Reverse(Sorted([i \in 1..Len(s) |-> Abs(s[i])]))

\* s[:n] for n >= 0
slice_to(s, n) == [i \in 1..(IF n < Len(s) THEN n ELSE Len(s)) |-> s[i]]

\* The length test of line 528 with >= in place of >.
mean_n_absolute_max_len_equal(s, n_maxima) ==
    IF n_maxima <= 0 THEN Raise("ValueError")
    ELSE IF Len(s) >= n_maxima
         THEN Mean(slice_to(abs_sorted_descending(s), n_maxima))
         ELSE Null

mean_n_absolute_max(s, n_maxima) ==
    IF n_maxima <= 0 THEN Raise("ValueError")
    ELSE IF Len(s) > n_maxima
         THEN Mean(slice_to(abs_sorted_descending(s), n_maxima))
         ELSE Null

---------------------------------------------------------------------------
(* tsfresh.py 680-719 *)

\* x.shift(-k) for k >= 1: entry i is x[i + k], null past the end.
shift_back(s, k) ==
    [i \in 1..Len(s) |-> IF i + k <= Len(s) THEN Whole(s[i + k]) ELSE Null]

\* Series.head(m): the first m entries; for a negative m all entries but the
\* last -m.
head(s, m) ==
    LET k == IF m >= 0 THEN (IF m < Len(s) THEN m ELSE Len(s))
             ELSE (IF Len(s) + m > 0 THEN Len(s) + m ELSE 0)
    IN  [i \in 1..k |-> s[i]]

\* Series.mean() of a nullable series: nulls are skipped, null without values.
null_mean(s) ==
    IF NonNull(s) = <<>> THEN Null
    ELSE FDiv(FSum(NonNull(s)), Whole(Len(NonNull(s))))

reversal_terms(s, one_lag, two_lag) ==
    [i \in 1..Len(s) |->
        FSub(FMul(FMul(two_lag[i], two_lag[i]), one_lag[i]),
             FMul(FMul(one_lag[i], Whole(s[i])), Whole(s[i])))]

\* two_lag shifted by lag instead of 2 * lag.
time_reversal_asymmetry_statistic_one_shift(s, lag) ==
    LET n == Len(s)
        one_lag == shift_back(s, lag)
        two_lag == shift_back(s, lag)
    IN  null_mean(head(reversal_terms(s, one_lag, two_lag), n - 2 * lag))

time_reversal_asymmetry_statistic(s, lag) ==
    LET n == Len(s)
        one_lag == shift_back(s, lag)
        two_lag == shift_back(s, 2 * lag)
    IN  null_mean(head(reversal_terms(s, one_lag, two_lag), n - 2 * lag))

---------------------------------------------------------------------------
\* The kind of x: an eager series (Python arithmetic on the results) or an
\* expression (null propagates).
InputKinds == {"series", "expr"}

(* tsfresh.py 164-180 *)

\* y > y.sqrt() for a variance y >= 0: both sides are non-negative, so the
\* comparison is the comparison of their squares, y * y > y.
greater_than_own_sqrt(y) ==
    IF y.kind = "null" THEN Null
    ELSE Bool(NumLt(y, FMul(y, y)))

\* On an expression x.var(ddof=0) is a column, which has .sqrt(); on an eager
\* series it is a Python float (None for an empty series), which has not.
var_greater_than_std(s, kind) ==
    IF kind = "series" THEN Raise("AttributeError")
    ELSE LET y == var(s, 0)
         IN  greater_than_own_sqrt(y)

---------------------------------------------------------------------------
(* tsfresh.py 183-235 *)

RECURSIVE arg_best(_, _, _, _)
\* Scan from entry i on; best is the 1-based index of the best entry so far,
\* replaced only by a strictly better one (the first extreme wins).  sign is 1
\* for the maximum and -1 for the minimum.
arg_best(s, i, best, sign) ==
    IF i > Len(s) THEN best
    ELSE arg_best(s, i + 1,
                  IF sign * s[i] > sign * s[best] THEN i ELSE best, sign)

\* x.arg_max() and x.arg_min(): the 0-based index of the first extreme.
arg_max(s) == arg_best(s, 1, 1, 1) - 1
arg_min(s) == arg_best(s, 1, 1, -1) - 1

\* The result of a location on an empty series: None / 0 raises on an eager
\* series, a null on an expression.
empty_location(kind) ==
    IF kind = "series" THEN Raise("TypeError") ELSE Null

first_location_of_maximum(s, kind) ==
    IF Len(s) = 0 THEN empty_location(kind)
    ELSE Num(arg_max(s), Len(s))

\* The last location counted from 0 like the first one.
last_location_of_maximum_zero_based(s, kind) ==
    IF Len(s) = 0 THEN empty_location(kind)
    ELSE Num(Len(s) - 1 - arg_max(Reverse(s)), Len(s))

last_location_of_maximum(s, kind) ==
    IF Len(s) = 0 THEN empty_location(kind)
    ELSE Num(Len(s) - arg_max(Reverse(s)), Len(s))

first_location_of_minimum(s, kind) ==
    IF Len(s) = 0 THEN empty_location(kind)
    ELSE Num(arg_min(s), Len(s))

last_location_of_minimum(s, kind) ==
    IF Len(s) = 0 THEN empty_location(kind)
    ELSE Num(Len(s) - arg_min(Reverse(s)), Len(s))

---------------------------------------------------------------------------
(* The state machine *)

Unconstructed == [kind |-> "unconstructed"]
Running == [kind |-> "running"]
Exited(code) == [kind |-> "exited", code |-> code]

Init ==
    /\ x \in Series
    /\ fn = "none"
    /\ arg = [build |-> "none"]
    /\ out = NoCall
    /\ wrapper = Unconstructed
    /\ proc = Running
    /\ ret = NoCall

Call_sum_reocurring_points ==
    /\ fn = "none"
    /\ \E build \in EmptySums :
          /\ arg' = [build |-> build]
          /\ out' = sum_reocurring_points(x, build)
    /\ fn' = "sum_reocurring_points"
    /\ UNCHANGED <<x, reducer_vars>>

Call_sum_reocurring_values ==
    /\ fn = "none"
    /\ fn' = "sum_reocurring_values"
    /\ out' = sum_reocurring_values(x)
    /\ UNCHANGED <<x, arg, reducer_vars>>

\* The multipliers and the quantiles the calls are made with.
RVals == {Whole(0), Num(1, 2), Whole(1)}
Corridors == {<<<<0, 1>>, <<1, 2>>>>, <<<<0, 1>>, <<1, 1>>>>, <<<<1, 2>>, <<1, 1>>>>}

Call_symmetry_looking ==
    /\ fn = "none"
    /\ \E shape \in {"scalar", "mapping"}, r \in RVals :
          /\ arg' = [shape |-> shape, val |-> r]
          /\ out' = symmetry_looking(x, arg')
    /\ fn' = "symmetry_looking"
    /\ UNCHANGED <<x, reducer_vars>>

Call_linear_trend ==
    /\ fn = "none"
    /\ \E build \in EmptySums :
          /\ arg' = [build |-> build]
          /\ out' = linear_trend(x, build)
    /\ fn' = "linear_trend"
    /\ UNCHANGED <<x, reducer_vars>>

Call_autocorr ==
    /\ fn = "none"
    /\ \E lag \in -MaxLag..MaxLag, build \in EmptySums :
          /\ arg' = [lag |-> lag, build |-> build]
          /\ out' = autocorr(x, lag, build)
    /\ fn' = "autocorr"
    /\ UNCHANGED <<x, reducer_vars>>

Call_mean_second_derivative_central ==
    /\ fn = "none"
    /\ fn' = "mean_second_derivative_central"
    /\ out' = mean_second_derivative_central(x)
    /\ UNCHANGED <<x, arg, reducer_vars>>

Call_change_quantiles ==
    /\ fn = "none"
    /\ \E c \in Corridors, is_abs \in BOOLEAN :
          /\ arg' = [ql |-> c[1], qh |-> c[2], is_abs |-> is_abs]
          /\ out' = change_quantiles(x, c[1], c[2], is_abs)
    /\ fn' = "change_quantiles"
    /\ UNCHANGED <<x, reducer_vars>>

Call_longest_strike_below_mean ==
    /\ fn = "none"
    /\ \E cmp \in NoneComparisons :
          /\ arg' = [cmp |-> cmp]
          /\ out' = longest_strike_below_mean(x, cmp)
    /\ fn' = "longest_strike_below_mean"
    /\ UNCHANGED <<x, reducer_vars>>

Call_longest_strike_above_mean ==
    /\ fn = "none"
    /\ \E cmp \in NoneComparisons :
          /\ arg' = [cmp |-> cmp]
          /\ out' = longest_strike_above_mean(x, cmp)
    /\ fn' = "longest_strike_above_mean"
    /\ UNCHANGED <<x, reducer_vars>>

Call_mean_n_absolute_max ==
    /\ fn = "none"
    /\ \E n_maxima \in -1..(MaxLen + 1) :
          /\ arg' = [n_maxima |-> n_maxima]
          /\ out' = mean_n_absolute_max(x, n_maxima)
    /\ fn' = "mean_n_absolute_max"
    /\ UNCHANGED <<x, reducer_vars>>

Call_time_reversal_asymmetry_statistic ==
    /\ fn = "none"
    /\ \E lag \in 1..MaxLag :
          /\ arg' = [lag |-> lag]
          /\ out' = time_reversal_asymmetry_statistic(x, lag)
    /\ fn' = "time_reversal_asymmetry_statistic"
    /\ UNCHANGED <<x, reducer_vars>>

Call_var_greater_than_std ==
    /\ fn = "none"
    /\ \E kind \in InputKinds :
          /\ arg' = [kind |-> kind]
          /\ out' = var_greater_than_std(x, kind)
    /\ fn' = "var_greater_than_std"
    /\ UNCHANGED <<x, reducer_vars>>

\* The helper takes a series of 1/True and 0/False values.
Call_get_length_sequences_where ==
    /\ fn = "none"
    /\ \A i \in 1..Len(x) : x[i] \in {0, 1}
    /\ fn' = "get_length_sequences_where"
    /\ out' = SeriesOf(get_length_sequences_where([i \in 1..Len(x) |-> x[i] = 1]))
    /\ UNCHANGED <<x, arg, reducer_vars>>

Call_first_location_of_maximum ==
    /\ fn = "none"
    /\ \E kind \in InputKinds :
          /\ arg' = [kind |-> kind]
          /\ out' = first_location_of_maximum(x, kind)
    /\ fn' = "first_location_of_maximum"
    /\ UNCHANGED <<x, reducer_vars>>

Call_last_location_of_maximum ==
    /\ fn = "none"
    /\ \E kind \in InputKinds :
          /\ arg' = [kind |-> kind]
          /\ out' = last_location_of_maximum(x, kind)
    /\ fn' = "last_location_of_maximum"
    /\ UNCHANGED <<x, reducer_vars>>

Call_first_location_of_minimum ==
    /\ fn = "none"
    /\ \E kind \in InputKinds :
          /\ arg' = [kind |-> kind]
          /\ out' = first_location_of_minimum(x, kind)
    /\ fn' = "first_location_of_minimum"
    /\ UNCHANGED <<x, reducer_vars>>

Call_last_location_of_minimum ==
    /\ fn = "none"
    /\ \E kind \in InputKinds :
          /\ arg' = [kind |-> kind]
          /\ out' = last_location_of_minimum(x, kind)
    /\ fn' = "last_location_of_minimum"
    /\ UNCHANGED <<x, reducer_vars>>

Next ==
    \/ Call_sum_reocurring_points
    \/ Call_sum_reocurring_values
    \/ Call_symmetry_looking
    \/ Call_linear_trend
    \/ Call_autocorr
    \/ Call_mean_second_derivative_central
    \/ Call_change_quantiles
    \/ Call_longest_strike_below_mean
    \/ Call_longest_strike_above_mean
    \/ Call_mean_n_absolute_max
    \/ Call_time_reversal_asymmetry_statistic
    \/ Call_var_greater_than_std
    \/ Call_get_length_sequences_where
    \/ Call_first_location_of_maximum
    \/ Call_last_location_of_maximum
    \/ Call_first_location_of_minimum
    \/ Call_last_location_of_minimum

Spec == Init /\ [][Next]_vars

---------------------------------------------------------------------------
(* The reducer wrapper, time_series_processor.py 13-88 *)

MaxEntities == 2
MaxDim == 3

\* The model names the wrapper is constructed with.
ModelNames == {"PCA", "TSNE", "UMAP"}
\* The names fit and fit_transform have a branch for (lines 60-63, 79-82).
DispatchedModels == {"PCA", "TSNE"}

\* The descriptors that can be registered, and the panels: one value series
\* per entity, entity e being the e-th group.
Features == {"sum_reocurring_values", "mean_second_derivative_central"}
EntitySeries == {<<1, 1, 2>>, <<2, 0>>}
Panels ==
    {[columns |-> <<"id", "time", "value">>, groups |-> g] :
        g \in UNION {[1..n -> EntitySeries] : n \in 1..MaxEntities}}
Dims == 1..MaxDim

feature(name, s) ==
    IF name = "sum_reocurring_values" THEN sum_reocurring_values(s)
    ELSE mean_second_derivative_central(s)

\* A descriptor that raises on an entity's data leaves a missing cell.
cell(v) == IF v.kind = "raise" THEN Null ELSE v

\* FeatureCalculator.calculate_features: one row per entity, the entity
\* identifier first, then one column per registered feature in
\* registration order.
calculate_features(registry, X) ==
    [columns |-> <<X.columns[1]>> \o registry,
     rows    |-> [e \in 1..Len(X.groups) |->
                    <<Whole(e)>> \o [j \in 1..Len(registry) |->
                                        cell(feature(registry[j], X.groups[e]))]]]

\* frame.select(pl.exclude(id))
exclude(frame, id) ==
    LET idx == SelectSeq([j \in 1..Len(frame.columns) |-> j],
                         LAMBDA j : frame.columns[j] # id)
    IN  [columns |-> [k \in 1..Len(idx) |-> frame.columns[idx[k]]],
         rows    |-> [e \in 1..Len(frame.rows) |->
                        [k \in 1..Len(idx) |-> frame.rows[e][idx[k]]]]]

\* DimensionReducer.fit_pca: the fitted state, a function of the feature
\* table and the number of components.
fit_pca(X_features, dim) ==
    IF dim > Len(X_features.columns) \/ dim > Len(X_features.rows)
    THEN Raise("InvalidDimensionError")
    ELSE [kind |-> "PCA", dim |-> dim, fitted_on |-> X_features]

\* state_model.transform: the projection of the rows under the fitted state.
transform(state_model, X_features) ==
    IF X_features.columns # state_model.fitted_on.columns
    THEN Raise("SchemaMismatchError")
    ELSE [kind |-> "embedding", dim |-> state_model.dim,
          of |-> X_features.rows, under |-> state_model]

\* Lines 53-59 and 72-78: the feature table without the identifier column.
features_without_id(w, X) ==
    exclude(calculate_features(w.registry, X), X.columns[1])

\* What fit leaves in dimension_reducer.state_model.
fit_state_model(w, X, dim) ==
    LET s == fit_pca(features_without_id(w, X), dim)
    IN  IF w.model = "PCA" /\ s.kind # "raise" THEN s ELSE w.state_model

\* What fit returns (NoCall: the call does not return).
fit_value(w, X, dim) ==
    IF w.model = "PCA" THEN
        LET s == fit_pca(features_without_id(w, X), dim)
        IN  s
    ELSE IF w.model = "TSNE" THEN Null
    ELSE NoCall

\* What fit_transform returns.
fit_transform_value(w, X, dim) ==
    IF w.model = "PCA" THEN
        LET s == fit_pca(features_without_id(w, X), dim)
        IN  IF s.kind = "raise" THEN s
            ELSE transform(s, features_without_id(w, X))
    ELSE IF w.model = "TSNE" THEN Null
    ELSE NoCall

\* What X_reduced returns: before calculate_features there is no feature
\* table, before a fit there is no state to transform with.
X_reduced_value(w) ==
    IF w.X_features = Null THEN Raise("AttributeError")
    ELSE IF w.state_model = Null THEN Raise("AttributeError")
    ELSE transform(w.state_model, exclude(w.X_features, w.X_features.columns[1]))

\* Lines 65-69 and 84-88: sys.exit(1).
exits(w) == w.model \notin DispatchedModels

InitReducer ==
    /\ x = <<>>
    /\ fn = "none"
    /\ arg = [build |-> "none"]
    /\ out = NoCall
    /\ wrapper = Unconstructed
    /\ proc = Running
    /\ ret = NoCall

\* __init__ with precompute_feat left at its default "".
Reducer_init ==
    /\ proc = Running
    /\ wrapper = Unconstructed
    /\ \E model \in ModelNames :
          /\ wrapper' = [kind |-> "features_dim_reduction", model |-> model,
                         registry |-> <<>>, X_features |-> Null,
                         state_model |-> Null]
          /\ ret' = [call |-> "__init__", args |-> [model |-> model],
                     value |-> Null]
    /\ UNCHANGED <<descriptor_vars, proc>>

Reducer_add_feature ==
    /\ proc = Running
    /\ wrapper # Unconstructed
    /\ \E f \in Features :
          IF \E j \in 1..Len(wrapper.registry) : wrapper.registry[j] = f
          THEN /\ ret' = [call |-> "add_feature", args |-> [feature |-> f],
                          value |-> Raise("DuplicateNameError")]
               /\ UNCHANGED wrapper
          ELSE /\ wrapper' = [wrapper EXCEPT !.registry = Append(@, f)]
               /\ ret' = [call |-> "add_feature", args |-> [feature |-> f],
                          value |-> [kind |-> "self"]]
    /\ UNCHANGED <<descriptor_vars, proc>>

Reducer_calculate_features ==
    /\ proc = Running
    /\ wrapper # Unconstructed
    /\ \E X \in Panels :
          /\ wrapper' = [wrapper EXCEPT
                            !.X_features = calculate_features(wrapper.registry, X)]
          /\ ret' = [call |-> "calculate_features", args |-> [X |-> X],
                     value |-> [kind |-> "frame",
                                frame |-> calculate_features(wrapper.registry, X)]]
    /\ UNCHANGED <<descriptor_vars, proc>>

Reducer_fit ==
    /\ proc = Running
    /\ wrapper # Unconstructed
    /\ \E X \in Panels, dim \in Dims :
          /\ wrapper' = [wrapper EXCEPT
                            !.X_features = calculate_features(wrapper.registry, X),
                            !.state_model = fit_state_model(wrapper, X, dim)]
          /\ ret' = [call |-> "fit", args |-> [X |-> X, dim |-> dim],
                     value |-> fit_value(wrapper, X, dim)]
    /\ proc' = IF exits(wrapper) THEN Exited(1) ELSE proc
    /\ UNCHANGED descriptor_vars

Reducer_fit_transform ==
    /\ proc = Running
    /\ wrapper # Unconstructed
    /\ \E X \in Panels, dim \in Dims :
          /\ wrapper' = [wrapper EXCEPT
                            !.X_features = calculate_features(wrapper.registry, X),
                            !.state_model = fit_state_model(wrapper, X, dim)]
          /\ ret' = [call |-> "fit_transform", args |-> [X |-> X, dim |-> dim],
                     value |-> fit_transform_value(wrapper, X, dim)]
    /\ proc' = IF exits(wrapper) THEN Exited(1) ELSE proc
    /\ UNCHANGED descriptor_vars

Reducer_X_reduced ==
    /\ proc = Running
    /\ wrapper # Unconstructed
    /\ ret' = [call |-> "X_reduced", args |-> [none |-> TRUE],
               value |-> X_reduced_value(wrapper)]
    /\ UNCHANGED <<descriptor_vars, wrapper, proc>>

NextReducer ==
    \/ Reducer_init
    \/ Reducer_add_feature
    \/ Reducer_calculate_features
    \/ Reducer_fit
    \/ Reducer_fit_transform
    \/ Reducer_X_reduced

SpecReducer == InitReducer /\ [][NextReducer]_vars

---------------------------------------------------------------------------
(* Claims *)

Repeated(s) == {v \in Vals : Count(s, v) > 1}

\* The sum of the points of s whose value occurs more than once.
SumOfRepeatedPoints(s) ==
    SumSeq([i \in 1..Len(s) |-> IF Count(s, s[i]) > 1 THEN s[i] ELSE 0])

\* C1: sum_reocurring_points(x) is the sum over all points of x whose value
\* occurs more than once, counted with multiplicity (value * occurrence count
\* for every value that occurs at least twice); [2,2,2,2,1] gives 8.
C1_PointsCountedWithMultiplicity ==
    (fn = "sum_reocurring_points" /\ Repeated(x) # {})
        => NumEq(out, Whole(SumOfRepeatedPoints(x)))

\* C2: sum_reocurring_points(x) >= sum_reocurring_values(x) for every x, with
\* equality iff every repeated value occurs exactly twice.
C2_PointsAtLeastValues ==
    (fn = "sum_reocurring_points" /\ Repeated(x) # {}) =>
        LET values == sum_reocurring_values(x)
        IN  /\ IsNum(out) /\ IsNum(values)
            /\ NumLe(values, out)
            /\ NumEq(values, out) <=> (\A v \in Repeated(x) : Count(x, v) = 2)

\* C3: sum_reocurring_values(x) returns one scalar, the sum of the distinct
\* values of x that occur more than once, each counted once; the call returns
\* a value and does not fail.
C3_ValuesCountedOnce ==
    (fn = "sum_reocurring_values" /\ Repeated(x) # {}) =>
        /\ out.kind # "raise"
        /\ NumEq(out, Whole(SumSet(Repeated(x))))

IsConstant(s) == \A i, j \in 1..Len(s) : s[i] = s[j]

\* C4: for every constant x and every r >= 0 passed as a plain scalar,
\* symmetry_looking(x, r) is true; in general it is the boolean
\* |mean(x) - median(x)| < r * (max(x) - min(x)).
C4_ConstantLooksSymmetric ==
    (fn = "symmetry_looking" /\ arg.shape = "scalar" /\ Len(x) > 0) =>
        /\ out.kind = "bool"
        /\ out.b = NumLt(FAbs(FSub(Mean(x), Median(x))),
                         FMul(arg.val, Whole(SeqMax(x) - SeqMin(x))))
        /\ IsConstant(x) => out.b

\* The ordinary-least-squares fit of s against the index 1..n.
OlsSlope(s)     == FDiv(cov(s, Index(Len(s))), var(Index(Len(s)), 1))
OlsIntercept(s) == FSub(Mean(s), FMul(OlsSlope(s), Mean(Index(Len(s)))))
OlsRss(s) ==
    FSum([i \in 1..Len(s) |->
            LET e == FSub(Whole(s[i]),
                          FAdd(FMul(OlsSlope(s), Whole(i)), OlsIntercept(s)))
            IN  FMul(e, e)])

\* C5: linear_trend(x) is the least-squares fit of x against the index 1..n:
\* slope = cov(x, index) / var(index), intercept = mean(x) - slope * mean(index),
\* rss = sum of (x[i] - (slope * i + intercept))^2; an exactly linear
\* x[i] = a + b*i gives slope b, intercept a, rss 0.
C5_LinearTrendIsLeastSquares ==
    (fn = "linear_trend" /\ Len(x) >= 2 /\ ~IsConstant(x)) =>
        /\ NumEq(out.slope, OlsSlope(x))
        /\ NumEq(out.intercept, OlsIntercept(x))
        /\ NumEq(out.rss, OlsRss(x))

C7_AutocorrLagZeroIsOne ==
    fn = "autocorr" =>
        /\ arg.lag = 0 => out = Whole(1)
        /\ arg.lag < 0 => out = Null

C7_Witness ==
    /\ fn = "autocorr"
    /\ arg.lag = 0
    /\ Len(x) >= 2 /\ IsConstant(x)
    /\ out = Whole(1)

\* C8: mean_second_derivative_central(x) is
\* (x[n-1] - x[n-2] - x[1] + x[0]) / (2(n-2)) for n >= 3, and for n <= 2 the
\* call yields a missing result instead of raising.
C8_SecondDerivativeGuarded ==
    fn = "mean_second_derivative_central" =>
        LET n == Len(x)
        IN  /\ n >= 3 =>
                NumEq(out, Num(x[n] - x[n - 1] - x[2] + x[1], 2 * (n - 2)))
            /\ n <= 2 => out.kind = "null"

\* The first differences of s (entry i is s[i+1] - s[i]), absolute if asked.
Changes(s, is_abs) ==
    [i \in 1..(IF Len(s) = 0 THEN 0 ELSE Len(s) - 1) |->
        IF is_abs THEN Abs(s[i + 1] - s[i]) ELSE s[i + 1] - s[i]]

InCorridor(v, d, ql, qh) ==
    LET ds == [i \in 1..Len(d) |-> Whole(d[i])]
    IN  /\ NumLe(quantile(ds, ql), Whole(v))
        /\ NumLe(Whole(v), quantile(ds, qh))

\* C9: change_quantiles(x, ql, qh, is_abs) returns one scalar, the average
\* magnitude of the entries of the difference series that lie, together with
\* their predecessor, inside the closed [ql, qh] quantile corridor of that
\* series; missing when there is no such entry.
C9_ChangeQuantilesIsAverage ==
    fn = "change_quantiles" =>
        LET d == Changes(x, arg.is_abs)
            q == {i \in 2..Len(d) : /\ InCorridor(d[i], d, arg.ql, arg.qh)
                                    /\ InCorridor(d[i - 1], d, arg.ql, arg.qh)}
        IN  IF q = {}
            THEN out.kind = "null" \/ (out.kind = "series" /\ out.vals = <<>>)
            ELSE /\ out.kind = "num"
                 /\ NumEq(out, Num(SumSeq([i \in 1..Len(d) |->
                                        IF i \in q THEN Abs(d[i]) ELSE 0]),
                                   Cardinality(q)))

\* The length of the longest run of consecutive true entries of mask.
LongestRun(mask) ==
    CHOOSE k \in 0..Len(mask) :
        /\ k > 0 => \E i \in 1..(Len(mask) - k + 1) :
                        \A j \in i..(i + k - 1) : mask[j]
        /\ \A l \in (k + 1)..Len(mask) :
                ~ \E i \in 1..(Len(mask) - l + 1) :
                        \A j \in i..(i + l - 1) : mask[j]

C11_MeanOfLargestAbsolutes ==
    fn = "mean_n_absolute_max" =>
        LET n == arg.n_maxima
        IN  /\ n <= 0 => out = Raise("ValueError")
            /\ (n > 0 /\ Len(x) <= n) => out = Null
            /\ (n > 0 /\ Len(x) > n) =>
                \E I \in SUBSET (1..Len(x)) :
                    /\ Cardinality(I) = n
                    /\ \A i \in I, j \in (1..Len(x)) \ I : Abs(x[j]) <= Abs(x[i])
                    /\ NumEq(out, Num(SumSeq([i \in 1..Len(x) |->
                                        IF i \in I THEN Abs(x[i]) ELSE 0]), n))

\* Two of three values are averaged, the smallest magnitude is left out.
C11_Witness ==
    /\ fn = "mean_n_absolute_max"
    /\ arg.n_maxima = 2
    /\ x = <<0, -1, 2>>
    /\ out = Num(3, 2)

\* C12: time_reversal_asymmetry_statistic(x, lag) with lag >= 1 is the mean of
\* x[t+2*lag]^2 * x[t+lag] - x[t+lag] * x[t]^2 over exactly the n - 2*lag
\* indices t for which all three elements exist, and is missing for every
\* series of length n <= 2*lag (n < 2*lag included).
C12_TimeReversalOverValidRange ==
    (fn = "time_reversal_asymmetry_statistic" /\ arg.lag >= 1) =>
        LET n   == Len(x)
            lag == arg.lag
        IN  IF n <= 2 * lag THEN out = Null
            ELSE NumEq(out,
                    Num(SumSeq([t \in 1..(n - 2 * lag) |->
                            x[t + 2 * lag] * x[t + 2 * lag] * x[t + lag]
                            - x[t + lag] * x[t] * x[t]]),
                        n - 2 * lag))

C12_Witness ==
    /\ fn = "time_reversal_asymmetry_statistic"
    /\ arg.lag = 1
    /\ x = <<0, 1, 2, 1>>
    /\ out = Whole(2)

\* The population variance of s is greater than 1:
\* (n * sum(x^2) - sum(x)^2) / n^2 > 1.
PopulationVarianceAboveOne(s) ==
    LET n == Len(s)
    IN  /\ n > 0
        /\ n * SumSeq([i \in 1..n |-> s[i] * s[i]]) - SumSeq(s) * SumSeq(s) > n * n

\* C15: for every constant sequence x, var_greater_than_std(x) is false; in
\* general it is true exactly when the population variance (ddof = 0) of x is
\* strictly greater than 1.
C15_VarianceAboveOne ==
    fn = "var_greater_than_std" =>
        /\ (Len(x) > 0 /\ IsConstant(x)) => out = Bool(FALSE)
        /\ Len(x) > 0 => out.kind = "bool"
        /\ out = Bool(TRUE) <=> PopulationVarianceAboveOne(x)

\* The first indices of the maximal runs of true values of mask.
RunStarts(mask) ==
    {i \in 1..Len(mask) : mask[i] /\ (i = 1 \/ ~mask[i - 1])}

\* The length of the run of true values that starts at i.
RunLength(mask, i) ==
    CHOOSE k \in 1..Len(mask) :
        /\ \A j \in i..(i + k - 1) : j <= Len(mask) /\ mask[j]
        /\ (i + k > Len(mask) \/ ~mask[i + k])

RECURSIVE RunLengthsFrom(_, _)
RunLengthsFrom(mask, i) ==
    IF i > Len(mask) THEN <<>>
    ELSE (IF i \in RunStarts(mask) THEN <<RunLength(mask, i)>> ELSE <<>>)
            \o RunLengthsFrom(mask, i + 1)

\* C16: the run-length helper returns the lengths of the maximal runs of
\* consecutive true values in their order of occurrence, and the
\* single-element result [0] when the series contains no true value.
C16_RunLengthsOrZero ==
    (fn = "get_length_sequences_where" /\ Len(x) > 0) =>
        LET mask == [i \in 1..Len(x) |-> x[i] = 1]
        IN  out.vals = IF RunStarts(mask) = {} THEN <<0>>
                       ELSE RunLengthsFrom(mask, 1)

\* 1-based positions of the first and the last entry of s equal to v.
FirstPosition(s, v) ==
    CHOOSE i \in 1..Len(s) : s[i] = v /\ \A j \in 1..(i - 1) : s[j] # v
LastPosition(s, v) ==
    CHOOSE i \in 1..Len(s) : s[i] = v /\ \A j \in (i + 1)..Len(s) : s[j] # v

\* C17: for every non-empty x, first_location_of_maximum / _minimum are the
\* 0-based index of the first extreme divided by n and lie in [0, 1);
\* last_location_of_maximum / _minimum are the 1-based index of the last
\* extreme divided by n and lie in (0, 1]; hence first < last strictly, also
\* when the extreme occurs exactly once.
C17_LocationScales ==
    Len(x) > 0 =>
        LET n == Len(x)
        IN  /\ fn = "first_location_of_maximum" =>
                /\ out = Num(FirstPosition(x, SeqMax(x)) - 1, n)
                /\ NumLe(Whole(0), out) /\ NumLt(out, Whole(1))
                /\ NumLt(out, last_location_of_maximum(x, arg.kind))
            /\ fn = "last_location_of_maximum" =>
                /\ out = Num(LastPosition(x, SeqMax(x)), n)
                /\ NumLt(Whole(0), out) /\ NumLe(out, Whole(1))
                /\ NumLt(first_location_of_maximum(x, arg.kind), out)
            /\ fn = "first_location_of_minimum" =>
                /\ out = Num(FirstPosition(x, SeqMin(x)) - 1, n)
                /\ NumLe(Whole(0), out) /\ NumLt(out, Whole(1))
                /\ NumLt(out, last_location_of_minimum(x, arg.kind))
            /\ fn = "last_location_of_minimum" =>
                /\ out = Num(LastPosition(x, SeqMin(x)), n)
                /\ NumLt(Whole(0), out) /\ NumLe(out, Whole(1))
                /\ NumLt(first_location_of_minimum(x, arg.kind), out)

\* A maximum that occurs once, at the end: first location 3/4, last location 1.
C17_Witness ==
    /\ fn = "first_location_of_maximum"
    /\ x = <<-1, 0, 1, 2>>
    /\ out = Num(3, 4)
    /\ last_location_of_maximum(x, arg.kind) = Whole(1)

\* The call on the wrapper last made returned or raised; it did not end
\* the process.
ReturnedOrRaised == proc = Running

\* C13: a wrapper configured with an unknown model name is rejected at
\* construction (the constructor raises, no object exists), and no call of
\* fit or fit_transform ends the process: every failure is returned or
\* raised to the caller.
C13_UnknownModelRejected ==
    /\ wrapper # Unconstructed => wrapper.model \in DispatchedModels
    /\ ret # NoCall /\ ret.call \in {"fit", "fit_transform"} => ReturnedOrRaised

\* fit has just returned (not raised) for a target_dim within the rows and
\* columns of the feature table.
FitJustReturned ==
    /\ proc = Running
    /\ ret # NoCall
    /\ ret.call = "fit"
    /\ ret.value.kind # "raise"
    /\ LET F == features_without_id(wrapper, ret.args.X)
       IN  ret.args.dim <= Len(F.rows) /\ ret.args.dim <= Len(F.columns)

\* C14: for any panel X and target_dim <= min(rows, cols), right after
\* fit(X, target_dim) the reducer state exists, and X_reduced() is the
\* embedding fit_transform(X, target_dim) returns on the same input, for
\* every model name fit accepts.
C14_FitThenTransformIsFitTransform ==
    FitJustReturned =>
        /\ wrapper.state_model # Null
        /\ X_reduced_value(wrapper).kind = "embedding"
        /\ X_reduced_value(wrapper)
              = fit_transform_value(wrapper, ret.args.X, ret.args.dim)

=============================================================================
